---- MODULE Spec2Model ----
(***************************************************************************)
(* Model of src/task/tasksched.cpp: the parse loop of main(), the generic   *)
(* queue sort(), the CTask comparison operators and the presentation /     *)
(* run loop.                                                                *)
(*                                                                          *)
(* A std::string is a sequence of one-character strings.  Positions are     *)
(* zero-based as in the source; npos stands for std::string::npos.          *)
(***************************************************************************)
EXTENDS Integers, Sequences, FiniteSets, TLC

VARIABLES cin, input, bRun, now, pc, tasks, loaded, bHadTasks, out, sleeps,
          target, raised, cmp, quiz

vars == <<cin, input, bRun, now, pc, tasks, loaded, bHadTasks, out, sleeps,
          target, raised, cmp, quiz>>

----------------------------------------------------------------------------
(* Bounds of the model *)

\* Longest line drawn, character by character, by the one-line specification.
MaxLen == 6
\* Largest number of lines in an input stream of the pipeline specification.
MaxLines == 3
\* Largest number of choices of a quiz question.
MaxChoices == 3
\* Largest number of rejected entries before the accepted one.
MaxTries == 2
\* Width of std::size_t in the model.  The real width (32 or 64) is beyond
\* the integers of the model checker; what the conversion of a negative int
\* needs is only that 2^SizeBits minus a small number exceeds every size.
SizeBits == 16

----------------------------------------------------------------------------
(* std::string helpers *)

npos == -1

\* The vertical tab has no escape in a TLA+ string; it is written out.
VT == "<VT>"

WHITESPACE == {" ", "\t", "\f", VT, "\n", "\r"}

Min(a, b) == IF a < b THEN a ELSE b

\* s.substr(pos, n); n = npos means "to the end".  pos <= s.length() always
\* holds at the call sites.
substr(s, pos, n) ==
    LET avail == Len(s) - pos
        cnt   == IF n = npos THEN avail ELSE Min(n, avail)
    IN  SubSeq(s, pos + 1, pos + cnt)

find_first_not_of(s, set) ==
    IF \E i \in 1..Len(s) : s[i] \notin set
    THEN (CHOOSE i \in 1..Len(s) :
             s[i] \notin set /\ \A j \in 1..(i-1) : s[j] \in set) - 1
    ELSE npos

find_first_of(s, set) ==
    IF \E i \in 1..Len(s) : s[i] \in set
    THEN (CHOOSE i \in 1..Len(s) :
             s[i] \in set /\ \A j \in 1..(i-1) : s[j] \notin set) - 1
    ELSE npos

find_last_not_of(s, set) ==
    IF \E i \in 1..Len(s) : s[i] \notin set
    THEN (CHOOSE i \in 1..Len(s) :
             s[i] \notin set /\ \A j \in (i+1)..Len(s) : s[j] \in set) - 1
    ELSE npos

----------------------------------------------------------------------------
(* Time support *)

\* Today's local midnight as a time_t (seconds).
t_today == 20000 * 86400

tm_today == [tm_hour |-> 0, tm_min |-> 0, tm_sec |-> 0]

\* mktime() of a tm of today's date.
mktime(tm) == t_today + tm.tm_hour * 3600 + tm.tm_min * 60 + tm.tm_sec

Digits == {"0", "1", "2", "3", "4", "5", "6", "7", "8", "9"}

DigitVal(c) ==
    CASE c = "0" -> 0 [] c = "1" -> 1 [] c = "2" -> 2 [] c = "3" -> 3
      [] c = "4" -> 4 [] c = "5" -> 5 [] c = "6" -> 6 [] c = "7" -> 7
      [] c = "8" -> 8 [] c = "9" -> 9

\* The conversion as it would be if both digits were mandatory.
GetInt_twodigits(s, p, hi) ==
    LET d2 == /\ p + 2 <= Len(s)
              /\ s[p + 1] \in Digits
              /\ s[p + 2] \in Digits
        v  == IF d2 THEN 10 * DigitVal(s[p + 1]) + DigitVal(s[p + 2]) ELSE 0
    IN  [ok |-> d2 /\ v <= hi, val |-> v, next |-> p + 2]

\* One numeric conversion (%H or %M) of std::get_time / strptime: reads one
\* or two digits starting at zero-based position p and checks the range.
\* Yields [ok, val, next].
GetInt(s, p, hi) ==
    LET d1 == p + 1 <= Len(s) /\ s[p + 1] \in Digits
        d2 == d1 /\ p + 2 <= Len(s) /\ s[p + 2] \in Digits
        v  == IF d2 THEN 10 * DigitVal(s[p + 1]) + DigitVal(s[p + 2])
              ELSE IF d1 THEN DigitVal(s[p + 1]) ELSE 0
        n  == IF d2 THEN p + 2 ELSE p + 1
    IN  [ok |-> d1 /\ v <= hi, val |-> v, next |-> n]

\* Parsing of timestr with the format "%H:%M" into a copy of tm_today.
\* Only the hour and minute fields are modified; the conversion stops after
\* the minutes, whatever follows them in the token.
get_time(timestr, tm) ==
    LET h     == GetInt(timestr, 0, 23)
        colon == h.ok /\ h.next + 1 <= Len(timestr) /\ timestr[h.next + 1] = ":"
        m     == GetInt(timestr, h.next + 1, 59)
    IN  IF colon /\ m.ok
        THEN [fail |-> FALSE,
              tm   |-> [tm EXCEPT !.tm_hour = h.val, !.tm_min = m.val]]
        ELSE [fail |-> TRUE, tm |-> tm]

----------------------------------------------------------------------------
(* CTask *)

SIMPLE_TASKS == 0
TIMED_TASKS == 1
MAX_TYPE_TASKS == 2

\* CTask(time_t, description)
CTask(time, description) == [m_Time |-> time, m_Description |-> description]

\* CTask(description): no time associated.
CTaskUntimed(description) == CTask(-1, description)

\* CTask(tm*, description)
CTaskTm(tm, description) == CTask(mktime(tm), description)

(* Comparison operators.  A comparison yields [raises, val]: raises tells   *)
(* that std::runtime_error("Colliding tasks!") was thrown instead of a     *)
(* value being returned.                                                    *)

operator_lt(task1, task2) ==
    [raises |-> FALSE,
     val    |-> IF task1.m_Time = -1 THEN TRUE
                ELSE task1.m_Time < task2.m_Time]

operator_gt(task1, task2) == operator_lt(task2, task1)

\* operator== as it would be if it compared the times only.
operator_eq_times(task1, task2, same) ==
    [raises |-> FALSE, val |-> same \/ task1.m_Time = task2.m_Time]

\* same tells whether both operands are the same object.
operator_eq(task1, task2, same) ==
    IF same THEN [raises |-> FALSE, val |-> TRUE]
    ELSE IF task1.m_Time = task2.m_Time
         THEN [raises |-> task1.m_Description # task2.m_Description,
               val    |-> TRUE]
         ELSE [raises |-> FALSE, val |-> FALSE]

operator_ne(task1, task2, same) ==
    LET e == operator_eq(task1, task2, same)
    IN  [raises |-> e.raises, val |-> ~e.val]

operator_le(task1, task2) ==
    LET g == operator_gt(task1, task2)
    IN  [raises |-> g.raises, val |-> ~g.val]

operator_ge(task1, task2) ==
    LET l == operator_lt(task1, task2)
    IN  [raises |-> l.raises, val |-> ~l.val]

\* std::greater<CTask>
greater(a, b) == operator_gt(a, b)

----------------------------------------------------------------------------
(* sort(std::queue<T>&) *)

Reverse(s) == [i \in 1..Len(s) |-> s[Len(s) + 1 - i]]

Perms(s) ==
    { [i \in 1..Len(s) |-> s[p[i]]] : p \in Permutations(1..Len(s)) }

\* The predicate handed to std::sort must be irreflexive on the elements;
\* otherwise the behaviour of std::sort is undefined.
WellOrdered(arr) == \A i \in 1..Len(arr) : ~greater(arr[i], arr[i]).val

\* Whether a comparison made by std::sort throws.
SortRaises(arr) ==
    \E i, j \in 1..Len(arr) : greater(arr[i], arr[j]).raises

\* The arrays std::sort(begin, end, greater) may leave: std::sort is not
\* stable, so every arrangement in which no later element is greater than an
\* earlier one; any arrangement at all when the behaviour is undefined.
StdSort(arr) ==
    IF WellOrdered(arr)
    THEN { a \in Perms(arr) :
             \A i, j \in 1..Len(a) : i < j => ~greater(a[j], a[i]).val }
    ELSE Perms(arr)

\* sort() as it would be if the sorted array were pushed from its front.
sort_front(queue) == StdSort(queue)

\* The queues sort(queue) may leave: the sorted array pushed from its back.
sort(queue) == { Reverse(a) : a \in StdSort(queue) }

----------------------------------------------------------------------------
(* The parse loop of main() *)

\* std::getline(cin, line): the characters up to the next newline, which is
\* extracted and dropped; eofbit is set when the stream ends first.
getline(stream) ==
    LET p == find_first_of(stream, {"\n"})
    IN  IF p = npos
        THEN [line |-> stream, rest |-> <<>>, eof |-> TRUE]
        ELSE [line |-> substr(stream, 0, p),
              rest |-> substr(stream, p + 1, npos),
              eof  |-> FALSE]

\* The body as it would be if the first token were skipped whether or not it
\* parsed as a time.
ParseLine_consume(line0) ==
    LET pos1    == find_first_not_of(line0, WHITESPACE)
        line1   == substr(line0, IF pos1 # npos THEN pos1 ELSE Len(line0), npos)
        pos2    == find_first_of(line1, WHITESPACE)
        token   == substr(line1, 0, pos2)
        parsed  == get_time(token, tm_today)
        timestr == IF parsed.fail THEN <<>> ELSE token
        line2   == substr(line1, IF pos2 # npos THEN pos2 ELSE Len(line1), npos)
        pos3    == find_first_not_of(line2, WHITESPACE)
        line3   == substr(line2, IF pos3 # npos THEN pos3 ELSE Len(line2), npos)
        pos4    == find_last_not_of(line3, WHITESPACE)
        description == substr(line3, 0, IF pos4 # npos THEN pos4 + 1 ELSE 0)
    IN  [skip        |-> description = <<>>,
         timestr     |-> timestr,
         tm_time     |-> parsed.tm,
         description |-> description]

\* The body as it would be if an empty description were not skipped.
ParseLine_noskip(line0) ==
    LET pos1    == find_first_not_of(line0, WHITESPACE)
        line1   == substr(line0, IF pos1 # npos THEN pos1 ELSE Len(line0), npos)
        pos2    == find_first_of(line1, WHITESPACE)
        token   == substr(line1, 0, pos2)
        parsed  == get_time(token, tm_today)
        timestr == IF parsed.fail THEN <<>> ELSE token
        line2   == IF parsed.fail THEN line1
                   ELSE substr(line1, IF pos2 # npos THEN pos2 ELSE Len(line1), npos)
        pos3    == find_first_not_of(line2, WHITESPACE)
        line3   == IF parsed.fail THEN line1
                   ELSE substr(line2, IF pos3 # npos THEN pos3 ELSE Len(line2), npos)
        pos4    == find_last_not_of(line3, WHITESPACE)
        description == substr(line3, 0, IF pos4 # npos THEN pos4 + 1 ELSE 0)
    IN  [skip        |-> FALSE,
         timestr     |-> timestr,
         tm_time     |-> parsed.tm,
         description |-> description]

\* The body of the loop for one line: [skip, timestr, tm_time, description].
ParseLine(line0) ==
    LET pos1    == find_first_not_of(line0, WHITESPACE)
        line1   == substr(line0, IF pos1 # npos THEN pos1 ELSE Len(line0), npos)
        pos2    == find_first_of(line1, WHITESPACE)
        token   == substr(line1, 0, pos2)
        parsed  == get_time(token, tm_today)
        timestr == IF parsed.fail THEN <<>> ELSE token
        line2   == IF parsed.fail THEN line1
                   ELSE substr(line1, IF pos2 # npos THEN pos2 ELSE Len(line1), npos)
        pos3    == find_first_not_of(line2, WHITESPACE)
        line3   == IF parsed.fail THEN line1
                   ELSE substr(line2, IF pos3 # npos THEN pos3 ELSE Len(line2), npos)
        pos4    == find_last_not_of(line3, WHITESPACE)
        description == substr(line3, 0, IF pos4 # npos THEN pos4 + 1 ELSE 0)
    IN  [skip        |-> description = <<>>,
         timestr     |-> timestr,
         tm_time     |-> parsed.tm,
         description |-> description]

\* The loop body as it would be if it put a simple task at the front.
Emplace_front(q, line) ==
    LET r == ParseLine(line)
    IN  IF r.skip THEN q
        ELSE IF r.timestr = <<>>
        THEN [q EXCEPT ![SIMPLE_TASKS] = <<CTaskUntimed(r.description)>> \o @]
        ELSE [q EXCEPT ![TIMED_TASKS] = Append(@, CTaskTm(r.tm_time, r.description))]

\* The queues after the loop body has handled line.
Emplace(q, line) ==
    LET r == ParseLine(line)
    IN  IF r.skip THEN q
        ELSE IF r.timestr = <<>>
        THEN [q EXCEPT ![SIMPLE_TASKS] = Append(@, CTaskUntimed(r.description))]
        ELSE [q EXCEPT ![TIMED_TASKS] = Append(@, CTaskTm(r.tm_time, r.description))]

\* One iteration that reads a line: parse it and append the task, if any.
ReadLine ==
    /\ pc = "parse"
    /\ ~getline(cin).eof
    /\ cin' = getline(cin).rest
    /\ tasks' = Emplace(tasks, getline(cin).line)
    /\ UNCHANGED <<input, cmp, quiz, bRun, now, pc, loaded, bHadTasks, out, sleeps,
                   target, raised>>

\* The iteration in which getline() reaches the end of the stream: break.
ReadEof ==
    /\ pc = "parse"
    /\ getline(cin).eof
    /\ cin' = getline(cin).rest
    /\ loaded' = tasks
    /\ pc' = "sort"
    /\ UNCHANGED <<input, cmp, quiz, bRun, now, tasks, bHadTasks, out, sleeps, target,
                   raised>>

----------------------------------------------------------------------------
(* Sorting and presentation in main() *)

Event(kind, task) == [kind |-> kind, task |-> task, at |-> now]

\* sort(tasks[TIMED_TASKS]), the header and bHadTasks.  An exception leaving
\* sort() is not caught: the program terminates before presenting anything.
SortTimed ==
    /\ pc = "sort"
    /\ IF SortRaises(tasks[TIMED_TASKS])
       THEN /\ raised' = TRUE
            /\ pc' = "terminated"
            /\ UNCHANGED <<tasks, bHadTasks>>
       ELSE /\ \E q \in sort(tasks[TIMED_TASKS]) :
                 tasks' = [tasks EXCEPT ![TIMED_TASKS] = q]
            /\ bHadTasks' = (tasks[SIMPLE_TASKS] # <<>> \/ tasks[TIMED_TASKS] # <<>>)
            /\ pc' = "simple"
            /\ UNCHANGED raised
    /\ UNCHANGED <<cin, input, cmp, quiz, bRun, now, loaded, out, sleeps, target>>

\* One iteration of the loop over the simple tasks.
PrintSimple ==
    /\ pc = "simple"
    /\ tasks[SIMPLE_TASKS] # <<>>
    /\ out' = Append(out, Event("todo", Head(tasks[SIMPLE_TASKS])))
    /\ tasks' = [tasks EXCEPT ![SIMPLE_TASKS] = Tail(@)]
    /\ UNCHANGED <<cin, input, cmp, quiz, bRun, now, pc, loaded, bHadTasks, sleeps,
                   target, raised>>

\* The simple queue is empty: go on to the scheduled tasks.
SimpleDone ==
    /\ pc = "simple"
    /\ tasks[SIMPLE_TASKS] = <<>>
    /\ pc' = "timed"
    /\ UNCHANGED <<cin, input, cmp, quiz, bRun, now, tasks, loaded, bHadTasks, out,
                   sleeps, target, raised>>

\* The iteration as it would be if the check of bRun before the wait were
\* missing: the preview and the wait happen in list mode too.
DoTimed_nomode ==
    /\ pc = "timed"
    /\ tasks[TIMED_TASKS] # <<>>
    /\ LET cur  == Head(tasks[TIMED_TASKS])
           rest == Tail(tasks[TIMED_TASKS])
           kind == IF bRun THEN "current" ELSE "listed"
       IN  /\ tasks' = [tasks EXCEPT ![TIMED_TASKS] = rest]
           /\ IF rest = <<>>
              THEN /\ out' = Append(out, Event(kind, cur))
                   /\ pc' = "summary"
                   /\ UNCHANGED <<sleeps, target>>
              ELSE /\ out' = out \o <<Event(kind, cur),
                                     Event("preview", Head(rest))>>
                   /\ sleeps' = Append(sleeps, Head(rest).m_Time)
                   /\ target' = Head(rest).m_Time
                   /\ pc' = "sleep"
    /\ UNCHANGED <<cin, input, cmp, quiz, bRun, now, loaded, bHadTasks, raised>>

\* One iteration of the loop over the timed tasks, up to the call of
\* sleep_until() in run mode.
DoTimed ==
    /\ pc = "timed"
    /\ tasks[TIMED_TASKS] # <<>>
    /\ LET cur  == Head(tasks[TIMED_TASKS])
           rest == Tail(tasks[TIMED_TASKS])
       IN  /\ tasks' = [tasks EXCEPT ![TIMED_TASKS] = rest]
           /\ IF bRun
              THEN IF rest = <<>>
                   THEN /\ out' = Append(out, Event("current", cur))
                        /\ pc' = "summary"
                        /\ UNCHANGED <<sleeps, target>>
                   ELSE /\ out' = out \o <<Event("current", cur),
                                          Event("preview", Head(rest))>>
                        /\ sleeps' = Append(sleeps, Head(rest).m_Time)
                        /\ target' = Head(rest).m_Time
                        /\ pc' = "sleep"
              ELSE /\ out' = Append(out, Event("listed", cur))
                   /\ UNCHANGED <<pc, sleeps, target>>
    /\ UNCHANGED <<cin, input, cmp, quiz, bRun, now, loaded, bHadTasks, raised>>

\* The timed queue is empty: leave the loop.
TimedDone ==
    /\ pc = "timed"
    /\ tasks[TIMED_TASKS] = <<>>
    /\ pc' = "summary"
    /\ UNCHANGED <<cin, input, cmp, quiz, bRun, now, tasks, loaded, bHadTasks, out,
                   sleeps, target, raised>>

\* sleep_until() as it would be if it returned without waiting.
Wake_early ==
    /\ pc = "sleep"
    /\ pc' = "timed"
    /\ UNCHANGED <<cin, input, cmp, quiz, bRun, now, tasks, loaded, bHadTasks, out,
                   sleeps, target, raised>>

\* std::this_thread::sleep_until() returns once the clock has reached the
\* time point; at once when it is already past.
Wake ==
    /\ pc = "sleep"
    /\ now >= target
    /\ pc' = "timed"
    /\ UNCHANGED <<cin, input, cmp, quiz, bRun, now, tasks, loaded, bHadTasks, out,
                   sleeps, target, raised>>

\* The closing message as it would be if the queues were looked at only now,
\* after the presentation has emptied them.
Summary_late ==
    /\ pc = "summary"
    /\ out' = Append(out, [kind |-> IF tasks[SIMPLE_TASKS] # <<>> \/ tasks[TIMED_TASKS] # <<>>
                                    THEN "finished" ELSE "nothing",
                           task |-> CTaskUntimed(<<>>), at |-> now])
    /\ pc' = "exit"
    /\ UNCHANGED <<cin, input, cmp, quiz, bRun, now, tasks, loaded, bHadTasks, sleeps,
                   target, raised>>

\* The closing message.
Summary ==
    /\ pc = "summary"
    /\ out' = Append(out, [kind |-> IF bHadTasks THEN "finished" ELSE "nothing",
                           task |-> CTaskUntimed(<<>>), at |-> now])
    /\ pc' = "exit"
    /\ UNCHANGED <<cin, input, cmp, quiz, bRun, now, tasks, loaded, bHadTasks, sleeps,
                   target, raised>>

\* The instants the system clock is observed at.
ClockInstants ==
    { mktime([tm_today EXCEPT !.tm_hour = hm[1], !.tm_min = hm[2]]) :
        hm \in {<<0, 0>>, <<0, 6>>, <<6, 0>>} }

\* The system clock advances.
Tick ==
    /\ pc \notin {"exit", "terminated"}
    /\ \E t \in ClockInstants : t > now /\ now' = t
    /\ UNCHANGED <<cin, input, cmp, quiz, bRun, pc, tasks, loaded, bHadTasks, out,
                   sleeps, target, raised>>

----------------------------------------------------------------------------
(* Input streams *)

\* The lines the streams of the pipeline specification are made of.
Lines ==
    { <<"6", ":", "0", " ", "a">>,
      <<"0", "6", ":", "0", "0", "\t", "a">>,
      <<"6", ":", "0", " ", "b">>,
      <<"0", ":", "0", "6", " ", "a">>,
      <<"a">>,
      <<" ", "b", " ">>,
      <<"6", ":", "0">> }

RECURSIVE Join(_)
\* The text of a sequence of lines, each ended by a newline.
Join(ls) == IF ls = <<>> THEN <<>> ELSE Head(ls) \o <<"\n">> \o Join(Tail(ls))

LineSeqs(n) == UNION { [1..k -> Lines] : k \in 0..n }

\* Every stream of at most MaxLines lines, the last of them with or without
\* its newline.
Streams ==
    LET full == { Join(ls) : ls \in LineSeqs(MaxLines) }
    IN  full \cup { SubSeq(s, 1, Len(s) - 1) : s \in full \ {<<>>} }

\* The characters the one-line specification builds its line of.
Alphabet == {"0", "6", ":", " ", "a"}

\* What precedes that line in the stream: two lines that leave a task in
\* each queue.
Prefix == <<"a", "\n", "6", ":", "0", " ", "b", "\n">>

OneLiners ==
    UNION { { Prefix \o s \o <<"\n">> : s \in [1..k -> Alphabet] } :
              k \in 0..MaxLen }

\* No comparison under study, no quiz question.
NoCmp == [ops |-> <<>>, lt |-> {}, gt |-> {}, eq |-> <<>>, ne |-> <<>>]
NoQuiz == [phase |-> "none"]

InitWith(streams) ==
    /\ cin \in streams
    /\ input = cin
    /\ bRun \in BOOLEAN
    /\ now \in ClockInstants
    /\ pc = "parse"
    /\ tasks = [k \in 0..(MAX_TYPE_TASKS - 1) |-> <<>>]
    /\ loaded = tasks
    /\ bHadTasks = FALSE
    /\ out = <<>>
    /\ sleeps = <<>>
    /\ target = 0
    /\ raised = FALSE
    /\ cmp = NoCmp
    /\ quiz = NoQuiz

Init == InitWith(Streams)

Next ==
    \/ ReadLine
    \/ ReadEof
    \/ SortTimed
    \/ PrintSimple
    \/ SimpleDone
    \/ DoTimed
    \/ TimedDone
    \/ Wake
    \/ Summary
    \/ Tick

Spec == Init /\ [][Next]_vars

\* The parse loop alone, ending with a line of up to MaxLen characters.
InitLine ==
    /\ InitWith(OneLiners)
    /\ bRun = FALSE
    /\ now = t_today

NextLine == ReadLine \/ ReadEof

SpecLine == InitLine /\ [][NextLine]_vars

----------------------------------------------------------------------------
(* Vocabulary of the properties *)

\* Two tasks of q claim the same time with different descriptions.
Collides(q) ==
    \E i, j \in 1..Len(q) :
        /\ q[i].m_Time = q[j].m_Time
        /\ q[i].m_Description # q[j].m_Description

RECURSIVE Sel(_, _)
\* The events of evs whose kind is in kinds, in order.
Sel(evs, kinds) ==
    IF evs = <<>> THEN <<>>
    ELSE IF Head(evs).kind \in kinds
         THEN <<Head(evs)>> \o Sel(Tail(evs), kinds)
         ELSE Sel(Tail(evs), kinds)

\* The tasks of these events.
Pick(evs, kinds) ==
    LET e == Sel(evs, kinds) IN [i \in 1..Len(e) |-> e[i].task]

\* The timed tasks presented so far, and the untimed ones.
PresentedTimed == Pick(out, {"current", "listed"})
PresentedSimple == Pick(out, {"todo"})

Count(x, q) == Cardinality({ i \in 1..Len(q) : q[i] = x })

IsPermutation(p, q) ==
    /\ Len(p) = Len(q)
    /\ \A i \in 1..Len(q) : Count(q[i], p) = Count(q[i], q)

NonDecreasing(q) ==
    \A i \in 1..(Len(q) - 1) : q[i].m_Time <= q[i + 1].m_Time

AfterSort == pc \in {"simple", "timed", "sleep", "summary", "exit"}

----------------------------------------------------------------------------
(* C1 -- whenever two timed tasks of the input resolve to the same time     *)
(* with different descriptions, the run ends at the sort with the collision *)
(* error raised and nothing is presented.                                   *)
C1_CollisionReported ==
    (pc # "parse" /\ pc # "sort" /\ Collides(loaded[TIMED_TASKS]))
        => (raised /\ pc = "terminated" /\ out = <<>>)

(* C2 -- for a collision-free timed list, once sorted the tasks still       *)
(* queued follow the presented ones in non-decreasing time, together they   *)
(* are a permutation of the parsed timed tasks, and at the end all of them  *)
(* have been presented.                                                     *)
C2_SortedPermutation ==
    (AfterSort /\ ~Collides(loaded[TIMED_TASKS]))
        => /\ NonDecreasing(PresentedTimed \o tasks[TIMED_TASKS])
           /\ IsPermutation(PresentedTimed \o tasks[TIMED_TASKS],
                            loaded[TIMED_TASKS])
           /\ (pc \in {"summary", "exit"} => tasks[TIMED_TASKS] = <<>>)

C2_Witness ==
    /\ pc = "exit"
    /\ ~Collides(loaded[TIMED_TASKS])
    /\ Len(loaded[TIMED_TASKS]) = 3
    /\ loaded[TIMED_TASKS][1].m_Time > loaded[TIMED_TASKS][2].m_Time
    /\ Len(PresentedTimed) = 3
    /\ PresentedTimed # loaded[TIMED_TASKS]

RECURSIVE Split(_)
\* The segments of a stream between its newlines; the last one is what
\* follows the last newline.
Split(s) ==
    IF \A i \in 1..Len(s) : s[i] # "\n" THEN <<s>>
    ELSE LET p == CHOOSE i \in 1..Len(s) :
                      s[i] = "\n" /\ \A j \in 1..(i - 1) : s[j] # "\n"
         IN  <<SubSeq(s, 1, p - 1)>> \o Split(SubSeq(s, p + 1, Len(s)))

\* The lines of a stream that end with a newline.
TerminatedLines(s) == SubSeq(Split(s), 1, Len(Split(s)) - 1)

\* Every line of a stream: a last line needs no newline.
AllLines(s) ==
    IF Split(s)[Len(Split(s))] = <<>> THEN TerminatedLines(s) ELSE Split(s)

RECURSIVE UntimedOf(_)
\* The untimed tasks of a sequence of lines, in the order of the lines.
UntimedOf(ls) ==
    IF ls = <<>> THEN <<>>
    ELSE LET r == ParseLine(Head(ls))
         IN  (IF ~r.skip /\ r.timestr = <<>>
              THEN <<CTask(-1, r.description)>> ELSE <<>>)
             \o UntimedOf(Tail(ls))

RECURSIVE TimedOf(_)
\* The timed tasks of a sequence of lines, in the order of the lines.
TimedOf(ls) ==
    IF ls = <<>> THEN <<>>
    ELSE LET r == ParseLine(Head(ls))
         IN  (IF ~r.skip /\ r.timestr # <<>>
              THEN <<CTask(t_today + 3600 * r.tm_time.tm_hour
                                   + 60 * r.tm_time.tm_min, r.description)>>
              ELSE <<>>)
             \o TimedOf(Tail(ls))

(* C3 -- the untimed tasks are presented in the order of their lines, and   *)
(* all of them before any timed task is presented.                          *)
C3_UntimedFirstInOrder ==
    /\ AfterSort =>
          PresentedSimple \o tasks[SIMPLE_TASKS] = UntimedOf(TerminatedLines(input))
    /\ PresentedTimed # <<>> => tasks[SIMPLE_TASKS] = <<>>
    /\ \A i, j \in 1..Len(out) :
          (i < j /\ out[j].kind = "todo")
              => out[i].kind \notin {"current", "listed", "preview"}

C3_Witness ==
    /\ pc = "exit"
    /\ Len(PresentedSimple) = 2
    /\ PresentedSimple[1] # PresentedSimple[2]
    /\ Len(PresentedTimed) = 1
    /\ ParseLine(Split(input)[1]).timestr # <<>>

(* C4 -- lines that parse to the same time and the same description count   *)
(* as one entry: no task is held, or presented, twice.                      *)
C4_DuplicatesCollapse ==
    /\ \A i, j \in 1..Len(loaded[TIMED_TASKS]) :
          i # j => loaded[TIMED_TASKS][i] # loaded[TIMED_TASKS][j]
    /\ \A i, j \in 1..Len(PresentedTimed) :
          i # j => PresentedTimed[i] # PresentedTimed[j]

(* C8 -- after the parse loop the queues hold one task per valid line of    *)
(* the stream, in input order, the last line included when it lacks its     *)
(* newline.                                                                 *)
C8_OneTaskPerLine ==
    pc # "parse" =>
        /\ loaded[SIMPLE_TASKS] = UntimedOf(AllLines(input))
        /\ loaded[TIMED_TASKS] = TimedOf(AllLines(input))

(* C9 as claimed -- in run mode no timed task, the first one included, is   *)
(* presented as current before the clock has reached its time.              *)
C9_NeverEarly ==
    \A i \in 1..Len(out) :
        out[i].kind = "current" => out[i].at >= out[i].task.m_Time

\* The events presenting a task as the current one.
Currents == Sel(out, {"current"})

(* C9 as amended -- in run mode no timed task other than the first one      *)
(* presented is presented as current before the clock has reached its time. *)
C9_NeverEarlyAfterFirst ==
    \A i \in 2..Len(Currents) : Currents[i].at >= Currents[i].task.m_Time

C9_Witness ==
    /\ bRun
    /\ pc = "exit"
    /\ Len(Currents) = 2
    /\ Currents[1].at < Currents[1].task.m_Time
    /\ Currents[1].at < Currents[2].task.m_Time
    /\ Currents[1].task.m_Time < Currents[2].task.m_Time

\* The events of the run loop.
RunEvents == Sel(out, {"current", "preview"})

(* C10 -- the runner suspends only in run mode and only between two timed   *)
(* tasks: never before the timed loop, never in list mode, and in run mode  *)
(* once after each presented timed task that has a successor, after the     *)
(* successor's preview and until the successor's time; n timed tasks give   *)
(* n-1 suspensions (none when there is no timed task).                      *)
C10_SuspensionsBetweenTimed ==
    /\ ~bRun => (sleeps = <<>> /\ pc # "sleep")
    /\ pc \in {"parse", "sort", "simple", "terminated"} => sleeps = <<>>
    /\ pc = "sleep" =>
          /\ tasks[TIMED_TASKS] # <<>>
          /\ target = Head(tasks[TIMED_TASKS]).m_Time
          /\ sleeps # <<>> /\ sleeps[Len(sleeps)] = target
          /\ out[Len(out)] = [kind |-> "preview",
                              task |-> Head(tasks[TIMED_TASKS]),
                              at   |-> out[Len(out)].at]
          /\ Len(out) >= 2 /\ out[Len(out) - 1].kind = "current"
    /\ Len(sleeps) = Len(Sel(out, {"preview"}))
    /\ (bRun /\ pc \in {"summary", "exit"}) =>
          LET n == Len(loaded[TIMED_TASKS])
          IN  /\ Len(sleeps) = (IF n = 0 THEN 0 ELSE n - 1)
              /\ Len(Currents) = n
              /\ \A i \in 1..Len(sleeps) :
                    /\ sleeps[i] = Currents[i + 1].task.m_Time
                    /\ RunEvents[2 * i].kind = "preview"
                    /\ RunEvents[2 * i].task = Currents[i + 1].task
                    /\ RunEvents[2 * i - 1].kind = "current"

C10_Witness ==
    /\ bRun
    /\ pc = "exit"
    /\ Len(loaded[TIMED_TASKS]) = 3
    /\ Len(loaded[SIMPLE_TASKS]) = 0
    /\ Len(sleeps) = 2

----------------------------------------------------------------------------
(* The format of a line, stated on its text *)

DigitChar(d) == <<"0", "1", "2", "3", "4", "5", "6", "7", "8", "9">>[d + 1]

\* The ways to write v with one or two decimal digits.
Dec(v) ==
    IF v < 10 THEN { <<DigitChar(v)>>, <<"0", DigitChar(v)>> }
    ELSE { <<DigitChar(v \div 10), DigitChar(v % 10)>> }

\* The numbers up to hi that s writes.
Written(s, hi) ==
    IF Len(s) \in 1..2 THEN { v \in 0..hi : s \in Dec(v) } ELSE {}

\* The <<h, m>> a token denotes, when it is a valid HH:MM.
TimesOf(tok) ==
    UNION { Written(SubSeq(tok, 1, k - 1), 23)
                \X Written(SubSeq(tok, k + 1, Len(tok)), 59) :
            k \in { i \in 2..3 : i <= Len(tok) /\ tok[i] = ":" } }

\* No beginning of the token is a valid HH:MM.
NoTimePrefix(tok) ==
    \A k \in 3..Min(5, Len(tok)) : TimesOf(SubSeq(tok, 1, k)) = {}

Spaces(s, i, j) == \A k \in i..j : s[k] \in WHITESPACE

\* s[i..j] is a non-empty text with no whitespace at either end.
Solid(s, i, j) == i <= j /\ s[i] \notin WHITESPACE /\ s[j] \notin WHITESPACE

\* s[i..j] is a whitespace-delimited token of s.
Token(s, i, j) ==
    /\ i <= j
    /\ \A k \in i..j : s[k] \notin WHITESPACE
    /\ (j = Len(s) \/ s[j + 1] \in WHITESPACE)

\* The line the next iteration of the parse loop reads.
NextLineRead == Split(cin)[1]
ReadsLine == pc = "parse" /\ Len(Split(cin)) >= 2

(* C5 -- a line made of a valid HH:MM token, whitespace and a non-empty     *)
(* description (with any whitespace around) appends exactly one task to the *)
(* timed queue: midnight plus the hour and minute, and the description      *)
(* without the surrounding whitespace; the simple queue is left alone.      *)
C5_TimedLine ==
    [][ReadsLine =>
         LET l == NextLineRead
             n == Len(l)
         IN  \A a \in 0..n : Spaces(l, 1, a) =>
             \A b \in (a + 1)..n : Token(l, a + 1, b) =>
             \A hm \in TimesOf(SubSeq(l, a + 1, b)) :
             \A c \in (b + 1)..n : Spaces(l, b + 1, c) =>
             \A e \in (c + 1)..n : (Solid(l, c + 1, e) /\ Spaces(l, e + 1, n)) =>
                 tasks' = [tasks EXCEPT ![TIMED_TASKS] =
                              Append(@, [m_Time |-> t_today + 3600 * hm[1] + 60 * hm[2],
                                         m_Description |-> SubSeq(l, c + 1, e)])]
       ]_vars

C5_Witness ==
    /\ cin = <<>>
    /\ Len(Split(input)) = 4
    /\ Split(input)[3] = <<" ", "6", ":", "6", " ", "a">>
    /\ tasks[TIMED_TASKS] = << [m_Time |-> t_today + 21600, m_Description |-> <<"b">>],
                               [m_Time |-> t_today + 21960, m_Description |-> <<"a">>] >>
    /\ Len(tasks[SIMPLE_TASKS]) = 1

Ignorable(l) ==
    \/ Spaces(l, 1, Len(l))
    \/ \E a \in 0..Len(l) : \E b \in (a + 1)..Len(l) :
          /\ Spaces(l, 1, a)
          /\ TimesOf(SubSeq(l, a + 1, b)) # {}
          /\ Spaces(l, b + 1, Len(l))

(* C7 -- an empty line, a whitespace-only line and a line holding only a    *)
(* valid time token leave both queues as they were, raise no error and let  *)
(* the loop go on.                                                          *)
C7_IgnoredLine ==
    [][(ReadsLine /\ Ignorable(NextLineRead))
          => (tasks' = tasks /\ raised' = raised /\ pc' = "parse")]_vars

C7_Witness ==
    /\ cin = <<>>
    /\ pc = "parse"
    /\ Len(Split(input)) = 4
    /\ Split(input)[3] = <<" ", "6", ":", "0", "0", " ">>
    /\ Len(tasks[SIMPLE_TASKS]) = 1
    /\ Len(tasks[TIMED_TASKS]) = 1

----------------------------------------------------------------------------
\* The closing messages emitted so far.
Summaries == Sel(out, {"finished", "nothing"})

(* C11 -- the closing summary is emitted once per run, last, when both      *)
(* queues have been emptied; it is the 'nothing to do' message exactly when *)
(* parsing left both queues empty, the 'all tasks finished' one otherwise.  *)
C11_ClosingSummary ==
    /\ pc # "exit" => Summaries = <<>>
    /\ pc = "exit" =>
          /\ Len(Summaries) = 1
          /\ out[Len(out)] = Summaries[1]
          /\ tasks[SIMPLE_TASKS] = <<>> /\ tasks[TIMED_TASKS] = <<>>
          /\ Len(out) - 1 >= Len(loaded[SIMPLE_TASKS]) + Len(loaded[TIMED_TASKS])
          /\ (Summaries[1].kind = "nothing")
                <=> (loaded[SIMPLE_TASKS] = <<>> /\ loaded[TIMED_TASKS] = <<>>)
          /\ (Summaries[1].kind = "finished")
                <=> (loaded[SIMPLE_TASKS] # <<>> \/ loaded[TIMED_TASKS] # <<>>)

C11_Witness ==
    /\ pc = "exit"
    /\ Len(loaded[SIMPLE_TASKS]) = 1
    /\ Len(loaded[TIMED_TASKS]) = 2
    /\ Len(Summaries) = 1
    /\ Summaries[1].kind = "finished"

----------------------------------------------------------------------------
(* The comparison operators on their own *)

\* The tasks compared: no time or one of three times of today, and one of
\* two descriptions.
CmpTimes == { -1, t_today, t_today + 360, t_today + 21600 }
CmpTasks == { CTask(t, d) : t \in CmpTimes, d \in { <<"a">>, <<"b">> } }

Pairs == (1..3) \X (1..3)

\* Three task objects; the scheduler itself stays idle.
InitCmp ==
    /\ cin = <<>> /\ input = <<>> /\ bRun = FALSE /\ now = t_today
    /\ pc = "compare"
    /\ tasks = [k \in 0..(MAX_TYPE_TASKS - 1) |-> <<>>]
    /\ loaded = tasks
    /\ bHadTasks = FALSE /\ out = <<>> /\ sleeps = <<>> /\ target = 0
    /\ raised = FALSE
    /\ quiz = NoQuiz
    /\ \E a, b, c \in CmpTasks :
          cmp = [NoCmp EXCEPT !.ops = <<a, b, c>>]

\* Every comparison of two of the three objects; an object is the same
\* object as itself only.
Compare ==
    /\ pc = "compare"
    /\ pc' = "compared"
    /\ cmp' = [cmp EXCEPT
          !.lt = { p \in Pairs : operator_lt(cmp.ops[p[1]], cmp.ops[p[2]]).val },
          !.gt = { p \in Pairs : greater(cmp.ops[p[1]], cmp.ops[p[2]]).val },
          !.eq = [p \in Pairs |->
                    operator_eq(cmp.ops[p[1]], cmp.ops[p[2]], p[1] = p[2])],
          !.ne = [p \in Pairs |->
                    operator_ne(cmp.ops[p[1]], cmp.ops[p[2]], p[1] = p[2])]]
    /\ UNCHANGED <<cin, input, bRun, now, tasks, loaded, bHadTasks, out,
                   sleeps, target, raised, quiz>>

SpecCmp == InitCmp /\ [][Compare]_vars

\* rel is a strict weak ordering of the three objects.
StrictWeak(rel) ==
    LET inc(i, j) == <<i, j>> \notin rel /\ <<j, i>> \notin rel
    IN  /\ \A i \in 1..3 : <<i, i>> \notin rel
        /\ \A i, j \in 1..3 : <<i, j>> \in rel => <<j, i>> \notin rel
        /\ \A i, j, k \in 1..3 :
              (<<i, j>> \in rel /\ <<j, k>> \in rel) => <<i, k>> \in rel
        /\ \A i, j, k \in 1..3 : (inc(i, j) /\ inc(j, k)) => inc(i, k)

(* C12 -- operator< and operator> are strict weak orderings of all tasks,   *)
(* those without a time included, and a task without a time is less than   *)
(* every task with one.                                                     *)
C12_StrictWeakOrdering ==
    pc = "compared" =>
        /\ StrictWeak(cmp.lt)
        /\ StrictWeak(cmp.gt)
        /\ \A i, j \in 1..3 :
              (cmp.ops[i].m_Time = -1 /\ cmp.ops[j].m_Time # -1)
                  => <<i, j>> \in cmp.lt

(* C13 -- operator== returns false when the times differ, true when times   *)
(* and descriptions are equal or both operands are the same object, and     *)
(* raises 'Colliding tasks!' when the times are equal and the descriptions  *)
(* differ; operator!= returns the opposite and raises in the same case.     *)
C13_Equality ==
    pc = "compared" =>
        \A p \in Pairs :
            LET a    == cmp.ops[p[1]]
                b    == cmp.ops[p[2]]
                same == p[1] = p[2]
                e    == cmp.eq[p]
                n    == cmp.ne[p]
            IN  /\ (~same /\ a.m_Time # b.m_Time) =>
                      (~e.raises /\ ~e.val /\ ~n.raises /\ n.val)
                /\ (same \/ (a.m_Time = b.m_Time
                               /\ a.m_Description = b.m_Description)) =>
                      (~e.raises /\ e.val /\ ~n.raises /\ ~n.val)
                /\ (~same /\ a.m_Time = b.m_Time
                          /\ a.m_Description # b.m_Description) =>
                      (e.raises /\ n.raises)

C13_Witness ==
    /\ pc = "compared"
    /\ cmp.ops[1] = cmp.ops[3]
    /\ cmp.ops[1].m_Time = t_today + 360
    /\ cmp.ops[2].m_Time = t_today + 360
    /\ cmp.ops[1].m_Description # cmp.ops[2].m_Description
    /\ cmp.eq[<<1, 2>>].raises
    /\ ~cmp.eq[<<1, 3>>].raises

----------------------------------------------------------------------------
(* The quiz program: Question::Question, Question::Ask and the loading of   *)
(* the answer index in main()                                               *)

Max(a, b) == IF a > b THEN a ELSE b

\* Conversion of an int to std::size_t.
to_size_t(i) == i % (2 ^ SizeBits)

\* The constructor as it would be with the alternative kept in its comment:
\* max(min(answer, size), 1).
Question_maxmin(answer, choices) ==
    [m_choices |-> choices,
     m_answer  |-> Max(Min(answer, Len(choices)), 1)]

\* Question::Question(question, answer, choices); answer is a size_t.
Question(answer, choices) ==
    [m_choices |-> choices,
     m_answer  |-> Min(Max(answer, 1), Len(choices))]

\* The indices stoi() may read from the file.
ReadAnswers == (0 - MaxChoices - 1)..(MaxChoices + 2)

\* What the user may enter: an integer, or something that is not numeric.
Entries ==
    { [numeric |-> TRUE, val |-> i] : i \in (0 - 1)..(MaxChoices + 2) }
        \cup { [numeric |-> FALSE, val |-> 0] }

\* One question to load: its answer line and its choices; the scheduler
\* stays idle.
InitQuiz ==
    /\ cin = <<>> /\ input = <<>> /\ bRun = FALSE /\ now = t_today
    /\ pc = "quiz"
    /\ tasks = [k \in 0..(MAX_TYPE_TASKS - 1) |-> <<>>]
    /\ loaded = tasks
    /\ bHadTasks = FALSE /\ out = <<>> /\ sleeps = <<>> /\ target = 0
    /\ raised = FALSE
    /\ cmp = NoCmp
    /\ \E r \in ReadAnswers, n \in 0..MaxChoices :
          quiz = [phase |-> "load", read |-> r,
                  choices |-> [i \in 1..n |-> "choice"]]

\* main(): answer = stoi(line), converted to size_t, and the construction of
\* the question.
LoadQuestion ==
    /\ quiz.phase = "load"
    /\ quiz' = [phase |-> "ask", read |-> quiz.read,
                q |-> Question(to_size_t(quiz.read), quiz.choices),
                tries |-> 0, answer |-> 0, correct |-> FALSE]
    /\ UNCHANGED <<cin, input, bRun, now, pc, tasks, loaded, bHadTasks, out,
                   sleeps, target, raised, cmp>>

\* The value of answer after iStr >> answer: zero when the entry is not
\* numeric.
Extracted(e) == IF e.numeric THEN e.val ELSE 0

\* The condition of the do-while loop of Ask: ask again.  The int answer is
\* converted to size_t for its comparison with maxAns.
AsksAgain(answer, maxAns) == answer < 1 \/ to_size_t(answer) > maxAns

\* Ask(): an entry that is not a meaningful choice; the loop goes round.
Ask_Again ==
    /\ quiz.phase = "ask"
    /\ quiz.tries < MaxTries
    /\ \E e \in Entries :
          /\ AsksAgain(Extracted(e), Max(1, Len(quiz.q.m_choices)))
          /\ quiz' = [quiz EXCEPT !.tries = @ + 1, !.answer = Extracted(e)]
    /\ UNCHANGED <<cin, input, bRun, now, pc, tasks, loaded, bHadTasks, out,
                   sleeps, target, raised, cmp>>

\* Ask(): a meaningful choice ends the loop and is compared with m_answer.
Ask_Answer ==
    /\ quiz.phase = "ask"
    /\ \E e \in Entries :
          /\ ~AsksAgain(Extracted(e), Max(1, Len(quiz.q.m_choices)))
          /\ quiz' = [quiz EXCEPT !.phase = "done",
                                  !.answer = Extracted(e),
                                  !.correct = (to_size_t(Extracted(e)) = quiz.q.m_answer)]
    /\ UNCHANGED <<cin, input, bRun, now, pc, tasks, loaded, bHadTasks, out,
                   sleeps, target, raised, cmp>>

NextQuiz == LoadQuestion \/ Ask_Again \/ Ask_Answer

SpecQuiz == InitQuiz /\ [][NextQuiz]_vars

(* C14 -- the stored answer index is the index read, brought into 1..n when *)
(* there are n >= 1 choices (0 becomes 1, an index above n or a negative    *)
(* one becomes n), and 0 when there is no choice; Ask accepts an entry of   *)
(* 1..max(1, n) only, reports it correct exactly when it is the stored      *)
(* index, and so never when there is no choice.                             *)
C14_AnswerNormalized ==
    quiz.phase \in {"ask", "done"} =>
        LET n == Len(quiz.q.m_choices)
            a == quiz.read
            m == quiz.q.m_answer
        IN  /\ n >= 1 =>
                  /\ m \in 1..n
                  /\ a = 0 => m = 1
                  /\ a > n => m = n
                  /\ a < 0 => m = n
                  /\ a \in 1..n => m = a
            /\ n = 0 => m = 0
            /\ quiz.phase = "done" =>
                  /\ quiz.answer \in 1..(IF n = 0 THEN 1 ELSE n)
                  /\ quiz.correct <=> (quiz.answer = m)
                  /\ n = 0 => ~quiz.correct

C14_Witness ==
    /\ quiz.phase = "done"
    /\ quiz.read < 0
    /\ quiz.q.m_choices = <<>>
    /\ quiz.q.m_answer = 0
    /\ quiz.answer = 1
    /\ quiz.tries = 1
    /\ ~quiz.correct

====
